---- MODULE Spec2Model ----
(***************************************************************************)
(* Model of src/AFU.py: the Artemis Firmware Uploader widget               *)
(* (RemoteWidget), its module-level progressCount, the QProcess it spawns  *)
(* and the QSettings it saves on close and loads on startup.               *)
(*                                                                         *)
(* Strings that the code builds by concatenation (the status text, a chunk *)
(* of uploader output) are sequences of atoms: the fixed literals of the   *)
(* source are one atom each, "." is one dot, "#" is one progress mark.     *)
(* Python values that pass through QVariant (combobox data, settings) are  *)
(* records of a type and a content; NoneVar is Python's None.              *)
(***************************************************************************)
EXTENDS Integers, Sequences, FiniteSets, TLC

\* ---- bounds of the model ------------------------------------------------
MaxChunk == 2        \* atoms in one chunk read from the uploader's stdout
MaxProgress == 6     \* cap on progressCount
MaxStatusLen == 5    \* cap on the atoms of the status text
MaxSessions == 2     \* QProcess objects created in one run of the program

\* the serial devices that can be attached (p.device of comports()); every
\* call of comports() may find any of them, in any order
Devices == {"COM3", "COM4"}

\* ---- literals of the source ---------------------------------------------
StatusBlank == <<" ">>
StatusPortGone == <<"Port No Longer Available">>
StatusFileNotFound == <<"File Not Found">>
StatusUploading == <<"Uploading ">>
StatusComplete == <<"Complete">>
StatusUploadFailed == <<"Upload Failed">>
StatusPortInUse == <<"Port In Use / Please Close">>

\* the data of the three items update_baud_rates adds, in order
BaudRates == <<921600, 460800, 115200>>

\* what a chunk of uploader output can hold: progress marks, the three
\* marker words, and any other text
Tokens == {"#", "complete", "failed", "open", "txt"}
Chunks == UNION {[1..n -> Tokens] : n \in 1..MaxChunk}
\* what readAllStandardError().data().decode() can return
ErrTexts == {<<"stderr text">>}
\* what the line edit can hold: empty, or a path chosen in the file dialog
FileNames == {"", "fw.bin"}
\* outcome of open(path): success, IOError (OSError), or another exception
\* (ValueError for a path with an embedded NUL)
OpenOutcomes == {"ok", "IOError", "ValueError"}

VARIABLES
    appOpen,        \* the widget exists and is shown
    portItems,      \* data of port_combobox's items
    portIndex,      \* port_combobox.currentIndex()
    baudIndex,      \* baud_combobox.currentIndex()
    fileText,       \* fileLocation_lineedit.text()
    status,         \* self.status.text()
    progressCount,  \* the module global
    process,        \* self.process: 0 = attribute not set, n = n-th QProcess
    procState,      \* state of the QProcess self.process refers to
    openFiles,      \* file objects opened by the handler and not closed
    settings,       \* the QSettings store
    session,        \* what happened since the last accepted Upload press
    last            \* the handler that ran last, its inputs and its result

vars == <<appOpen, portItems, portIndex, baudIndex, fileText, status,
          progressCount, process, procState, openFiles, settings, session, last>>

\* ---- helpers --------------------------------------------------------------
Orderings(S) ==
    {s \in [1..Cardinality(S) -> S] : \A i, j \in DOMAIN s : s[i] = s[j] => i = j}

Dots(st) == Cardinality({i \in DOMAIN st : st[i] = "."})

RECURSIVE AppendDots(_, _)
AppendDots(st, n) == IF n <= 0 THEN st ELSE AppendDots(Append(st, "."), n - 1)

\* Python's  word in result
Contains(result, word) == \E i \in DOMAIN result : result[i] = word
\* Python's  result.count("#")
CountHash(result) == Cardinality({i \in DOMAIN result : result[i] = "#"})

\* session: plain = since the current uploader was started, the status was
\* written only for stdout chunks without a marker word (no stderr text, no
\* further press of Upload); hashes = the '#' delivered while plain (0
\* afterwards); freshCount/freshStatus = the count
\* and text that the events of this session alone produce, starting from 0
\* and "Uploading "
NoSession == [plain |-> FALSE, hashes |-> 0, freshCount |-> 0,
              freshStatus |-> <<>>]

\* the session record after a press of Upload that started nothing wrote `text`
\* to the status: an event of the current session, if there is one
Rewritten(sess, text) ==
    IF sess = NoSession THEN sess
    ELSE [sess EXCEPT !.plain = FALSE, !.hashes = 0, !.freshStatus = text]

\* the marker words a chunk contains
MarkerWords == {"complete", "failed", "open"}
WordsIn(result) == {w \in MarkerWords : Contains(result, w)}

\* last: the step taken last (every step writes it); its outcome; for a stdout chunk the marker words it contained and
\* its number of '#'; whether the handler raised
Last(op, outcome, words, hashes, raised) ==
    [op |-> op, outcome |-> outcome, words |-> words, hashes |-> hashes,
     raised |-> raised, listed |-> FALSE, exc |-> ""]
\* for a press of Upload also: whether comports() listed the selected device,
\* and what open() did (when the handler got that far)
LastUpload(outcome, raised, listed, exc) ==
    [Last("upload", outcome, {}, 0, raised) EXCEPT !.listed = listed,
                                                    !.exc = exc]

\* ---- QVariant, QSettings, QComboBox ----------------------------------------
\* A value held by a combobox item or by QSettings: its type and its content.
\* A "str" variant whose v is a number stands for that number's decimal digits.
IntVar(n) == [t |-> "int", v |-> n]
StrVar(x) == [t |-> "str", v |-> x]
NoneVar == [t |-> "none", v |-> ""]

\* QVariant equality as findData (Qt::MatchExactly) uses it: equal types compare
\* by content; a string and a number compare after converting the string.
VariantEq(a, b) ==
    IF a.t = "none" \/ b.t = "none" THEN a.t = b.t
    ELSE a.v = b.v

\* QComboBox.findData: the 0-based index of the first item whose data equals
\* value, or -1
FindData(items, value) ==
    LET hits == {i \in DOMAIN items : VariantEq(items[i], value)}
    IN IF hits = {} THEN -1
       ELSE (CHOOSE i \in hits : \A j \in hits : i <= j) - 1

\* QComboBox.currentData(): None when nothing is selected
CurrentData(items, index) ==
    IF index >= 0 /\ index < Len(items) THEN items[index + 1] ELSE NoneVar

\* what QSettings.value returns in a later run for a value stored by setValue:
\* the native store keeps the type, the INI store returns text
StoreFormats == {"native", "ini"}
ReadBack(fmt, value) ==
    IF fmt = "ini" /\ value.t = "int" THEN StrVar(value.v) ELSE value

EmptySettings == [port |-> NoneVar, file |-> NoneVar, baud |-> NoneVar]

\* update_com_ports: clear(), then addItem(name, device) for every port; the
\* first item added to an empty combobox becomes the current one
PortItemsOf(order) == [i \in DOMAIN order |-> StrVar(order[i])]
IndexAfterFill(items) == IF Len(items) = 0 THEN -1 ELSE 0

\* update_baud_rates
BaudItems == [i \in DOMAIN BaudRates |-> IntVar(BaudRates[i])]

\* the properties port and baudRate
port == CurrentData(portItems, portIndex)
baudRate == CurrentData(BaudItems, baudIndex)

\* as LoadIndex, but the index found is never made the current one
LoadIndexNoSelect(items, index, saved) == index

\* _load_settings, one setting each: the index (text) after loading
LoadIndex(items, index, saved) ==
    IF saved.t # "none"
    THEN LET found == FindData(items, saved)
         IN IF found > -1 THEN found ELSE index
    ELSE index
LoadText(text, saved) == IF saved.t # "none" THEN saved.v ELSE text

\* _save_settings
SavedSettings == [port |-> port, file |-> StrVar(fileText), baud |-> baudRate]

\* ---- on_upload_btn_pressed, piece by piece ----------------------------------
\* as PortAvailable, but any listed port counts (the comparison with
\* self.port lost)
PortAvailableAny(ports, p) == ports # {}

\* the loop over comports() comparing p.device with self.port
PortAvailable(ports, p) == \E d \in ports : StrVar(d) = p

\* what open(path) can do: the empty path never opens
OpenOutcomesFor(path) == IF path = "" THEN {"IOError"} ELSE OpenOutcomes

\* try: f = open(...); fileExists = True / except IOError: fileExists = False
FileExists(exc) == exc = "ok"
ExceptCaught(exc) == exc = "IOError"
\* as FinallyReturns, but the finally block falls through
FinallyFallsThrough(fileExists) == FALSE

\* finally: if (fileExists == False): ...; return   -- a return in a finally
\* block discards the exception in flight
FinallyReturns(fileExists) == fileExists = FALSE
UploadRaises(exc) ==
    exc # "ok" /\ ~ExceptCaught(exc) /\ ~FinallyReturns(FileExists(exc))

\* f = open(...) and f.close(), counted in open file objects
OpenFile(n) == n + 1
CloseFile(n) == n - 1

\* as ResetCount, but the assignment binds a local (no global statement): the
\* module's progressCount keeps its value
KeepCount == progressCount

\* progressCount = 0 ; self.status.setText("Uploading ")
ResetCount == 0
ResetStatus == StatusUploading

\* ---- onReadyReadStandardOutput, piece by piece ------------------------------
HasMarker(result) ==
    Contains(result, "complete") \/ Contains(result, "failed")
        \/ Contains(result, "open")

\* progressCount after the handler
StdoutCount(result, count) ==
    IF HasMarker(result) THEN count ELSE count + CountHash(result)

\* as StdoutStatus, but "failed" is looked for before "complete"
StdoutStatusFailedFirst(result, st, count) ==
    IF Contains(result, "failed") THEN StatusUploadFailed
    ELSE IF Contains(result, "complete") THEN StatusComplete
    ELSE IF Contains(result, "open") THEN StatusPortInUse
    ELSE AppendDots(st, StdoutCount(result, count) \div 3)

\* the status text after the handler: int(progressCount / 3) dots are appended
\* to the text the label holds
StdoutStatus(result, st, count) ==
    IF Contains(result, "complete") THEN StatusComplete
    ELSE IF Contains(result, "failed") THEN StatusUploadFailed
    ELSE IF Contains(result, "open") THEN StatusPortInUse
    ELSE AppendDots(st, StdoutCount(result, count) \div 3)

\* ---- onReadyReadStandardError -----------------------------------------------
StderrStatus(error, st) == error

\* ---- construction ---------------------------------------------------------
\* progressCount = 1 at module level
InitialCount == 1

\* RemoteWidget.__init__ with the ports listed in `order`, the stored settings
\* `stored` read back in format `fmt`: the widget's fields after _load_settings
Constructed(order, stored, fmt) ==
    LET items == PortItemsOf(order)
    IN [portItems |-> items,
        portIndex |-> LoadIndex(items, IndexAfterFill(items),
                                ReadBack(fmt, stored.port)),
        fileText  |-> LoadText("", ReadBack(fmt, stored.file)),
        baudIndex |-> LoadIndex(BaudItems, IndexAfterFill(BaudItems),
                                ReadBack(fmt, stored.baud))]

Init ==
    /\ appOpen = TRUE
    /\ settings = EmptySettings
    /\ \E ports \in SUBSET Devices : \E order \in Orderings(ports) :
         LET w == Constructed(order, EmptySettings, "native")
         IN /\ portItems = w.portItems
            /\ portIndex = w.portIndex
            /\ fileText = w.fileText
            /\ baudIndex = w.baudIndex
    /\ status = StatusBlank
    /\ progressCount = InitialCount
    /\ process = 0
    /\ procState = "NoProcess"
    /\ openFiles = 0
    /\ session = NoSession
    /\ last = Last("init", "", {}, 0, FALSE)

\* ---- the user's choices ---------------------------------------------------
\* the user picks another item of the port combobox
SelectPort ==
    /\ appOpen
    /\ \E i \in 0..(Len(portItems) - 1) :
         /\ i # portIndex
         /\ portIndex' = i
    /\ last' = Last("select_port", "", {}, 0, FALSE)
    /\ UNCHANGED <<appOpen, portItems, baudIndex, fileText, status,
                   progressCount, process, procState, openFiles, settings,
                   session>>

\* the user picks another item of the baud combobox
SelectBaud ==
    /\ appOpen
    /\ \E i \in 0..(Len(BaudItems) - 1) :
         /\ i # baudIndex
         /\ baudIndex' = i
    /\ last' = Last("select_baud", "", {}, 0, FALSE)
    /\ UNCHANGED <<appOpen, portItems, portIndex, fileText, status,
                   progressCount, process, procState, openFiles, settings,
                   session>>

\* ---- the widget's handlers --------------------------------------------------
on_refresh_btn_pressed ==
    /\ appOpen
    /\ \E ports \in SUBSET Devices : \E order \in Orderings(ports) :
         /\ portItems' = PortItemsOf(order)
         /\ portIndex' = IndexAfterFill(PortItemsOf(order))
    /\ last' = Last("refresh", "", {}, 0, FALSE)
    /\ UNCHANGED <<appOpen, baudIndex, fileText, status,
                   progressCount, process, procState, openFiles, settings,
                   session>>

on_browse_btn_pressed ==
    /\ appOpen
    /\ \E fileName \in FileNames :
         fileText' = IF fileName # "" THEN fileName ELSE fileText
    /\ last' = Last("browse", "", {}, 0, FALSE)
    /\ UNCHANGED <<appOpen, portItems, portIndex, baudIndex, status,
                   progressCount, process, procState, openFiles, settings,
                   session>>

\* the selected item's device is one of `ports`
Listed(ports) == port.t = "str" /\ port.v \in ports

on_upload_btn_pressed ==
    /\ appOpen
    /\ \E ports \in SUBSET Devices, exc \in OpenOutcomesFor(fileText) :
         IF ~PortAvailable(ports, port)
         THEN /\ status' = StatusPortGone
              /\ session' = Rewritten(session, StatusPortGone)
              /\ last' = LastUpload("PortGone", FALSE, Listed(ports), "")
              /\ UNCHANGED <<progressCount, process, procState, openFiles>>
         ELSE IF FinallyReturns(FileExists(exc))
         THEN /\ status' = StatusFileNotFound
              /\ session' = Rewritten(session, StatusFileNotFound)
              /\ last' = LastUpload("FileNotFound", UploadRaises(exc),
                                  Listed(ports), exc)
              /\ UNCHANGED <<progressCount, process, procState, openFiles>>
         ELSE /\ process < MaxSessions
              /\ openFiles' = CloseFile(OpenFile(openFiles))
              /\ progressCount' = ResetCount
              /\ status' = ResetStatus
              \* self.process = QProcess(): the QProcess it referred to before
              \* loses its last reference and is destroyed with its process
              /\ process' = process + 1
              /\ procState' = "Starting"
              /\ session' = [plain |-> TRUE, hashes |-> 0, freshCount |-> 0,
                              freshStatus |-> StatusUploading]
              /\ last' = LastUpload("Started", UploadRaises(exc),
                                  Listed(ports), exc)
    /\ UNCHANGED <<appOpen, portItems, portIndex, baudIndex, fileText,
                   settings>>

onReadyReadStandardOutput ==
    /\ appOpen
    /\ procState = "Running"
    /\ \E result \in Chunks :
         LET count == StdoutCount(result, progressCount)
             text == StdoutStatus(result, status, progressCount)
             plain == session.plain /\ ~HasMarker(result)
         IN /\ count <= MaxProgress
            /\ session.hashes + CountHash(result) <= MaxProgress
            /\ Len(text) <= MaxStatusLen
            /\ progressCount' = count
            /\ status' = text
            /\ session' =
                 [plain |-> plain,
                  hashes |-> IF plain THEN session.hashes + CountHash(result)
                             ELSE 0,
                  freshCount |-> StdoutCount(result, session.freshCount),
                  freshStatus |-> StdoutStatus(result, session.freshStatus,
                                               session.freshCount)]
            /\ last' = Last("stdout", "", WordsIn(result), CountHash(result),
                            FALSE)
    /\ UNCHANGED <<appOpen, portItems, portIndex, baudIndex, fileText,
                   process, procState, openFiles, settings>>

onReadyReadStandardError ==
    /\ appOpen
    /\ procState = "Running"
    /\ \E error \in ErrTexts :
         /\ status' = StderrStatus(error, status)
         /\ session' = [session EXCEPT
                          !.plain = FALSE,
                          !.hashes = 0,
                          !.freshStatus = StderrStatus(error, @)]
         /\ last' = Last("stderr", "", {}, 0, FALSE)
    /\ UNCHANGED <<appOpen, portItems, portIndex, baudIndex, fileText,
                   progressCount, process, procState, openFiles, settings>>

\* ---- the uploader process (QProcess.start of artemis_svl.exe) ---------------
\* procState is QProcess.state(): Starting, Running or NotRunning; "NoProcess"
\* while self.process is not set.
\* No handler is connected to started, errorOccurred or finished: these steps
\* change the QProcess and nothing of the widget.
\* the program was found and runs
ProcStarted ==
    /\ appOpen
    /\ procState = "Starting"
    /\ procState' = "Running"
    /\ last' = Last("process", "started", {}, 0, FALSE)
    /\ UNCHANGED <<appOpen, portItems, portIndex, baudIndex, fileText,
                   status, progressCount, process, openFiles, settings,
                   session>>

\* the program could not be started (not found, not executable)
ProcFailedToStart ==
    /\ appOpen
    /\ procState = "Starting"
    /\ procState' = "NotRunning"
    /\ last' = Last("process", "failed to start", {}, 0, FALSE)
    /\ UNCHANGED <<appOpen, portItems, portIndex, baudIndex, fileText,
                   status, progressCount, process, openFiles, settings,
                   session>>

\* the uploader crashes
ProcCrashed ==
    /\ appOpen
    /\ procState = "Running"
    /\ procState' = "NotRunning"
    /\ last' = Last("process", "crashed", {}, 0, FALSE)
    /\ UNCHANGED <<appOpen, portItems, portIndex, baudIndex, fileText,
                   status, progressCount, process, openFiles, settings,
                   session>>

\* the uploader exits, whatever it has printed
ProcExited ==
    /\ appOpen
    /\ procState = "Running"
    /\ procState' = "NotRunning"
    /\ last' = Last("process", "exited", {}, 0, FALSE)
    /\ UNCHANGED <<appOpen, portItems, portIndex, baudIndex, fileText,
                   status, progressCount, process, openFiles, settings,
                   session>>

\* ---- close and the next startup ---------------------------------------------
\* closeEvent: _save_settings(); event.accept(). The last window closes, the
\* event loop returns and the program exits: its objects are gone.
closeEvent ==
    /\ appOpen
    /\ settings' = SavedSettings
    /\ appOpen' = FALSE
    /\ status' = StatusBlank
    /\ progressCount' = InitialCount
    /\ process' = 0
    /\ procState' = "NoProcess"
    /\ session' = NoSession
    /\ last' = Last("close", "accepted", {}, 0, FALSE)
    /\ UNCHANGED <<portItems, portIndex, baudIndex, fileText,
                   openFiles>>

\* the program is started again: __init__ runs against the stored settings
Startup ==
    /\ ~appOpen
    /\ appOpen' = TRUE
    /\ \E ports \in SUBSET Devices, fmt \in StoreFormats :
       \E order \in Orderings(ports) :
         LET w == Constructed(order, settings, fmt)
         IN /\ portItems' = w.portItems
            /\ portIndex' = w.portIndex
            /\ fileText' = w.fileText
            /\ baudIndex' = w.baudIndex
            /\ last' = Last("startup", fmt, {}, 0, FALSE)
    /\ UNCHANGED <<status, progressCount, process, procState,
                   openFiles, settings, session>>

\* One run of the program, from construction until the window is closed.
Next ==
    \/ SelectPort
    \/ on_refresh_btn_pressed
    \/ on_browse_btn_pressed
    \/ on_upload_btn_pressed
    \/ onReadyReadStandardOutput
    \/ onReadyReadStandardError
    \/ ProcStarted
    \/ ProcFailedToStart
    \/ ProcCrashed
    \/ ProcExited

Spec == Init /\ [][Next]_vars

\* Runs of the program one after the other: what the user sets, what closing
\* stores and what the next startup loads. A restarted program begins as Init
\* does (no process, progressCount = InitialCount), so uploads are left to Spec.
SettingsNext ==
    \/ SelectPort
    \/ SelectBaud
    \/ on_refresh_btn_pressed
    \/ on_browse_btn_pressed
    \/ closeEvent
    \/ Startup

SettingsSpec == Init /\ [][SettingsNext]_vars

\* The uploader process starts or fails to start, and once running it ends:
\* the operating system and Qt's event loop see to both. Nothing makes the
\* uploader print.
FairSpec ==
    /\ Spec
    /\ WF_vars(ProcStarted \/ ProcFailedToStart)
    /\ WF_vars(ProcCrashed \/ ProcExited)

\* ---- the claims -------------------------------------------------------------
Busy == procState \in {"Starting", "Running"}
Terminal == {StatusComplete, StatusUploadFailed, StatusPortInUse}
\* the step being taken is a run of the named handler (every step records its
\* name in last, so a step that changes anything names itself)
Pressed == last'.op = "upload"
StdoutEvent == last'.op = "stdout"
OutputEvent == last'.op \in {"stdout", "stderr"}

\* C1 (as claimed): a press of Upload while the uploader started before has not
\* finished starts no second uploader and leaves self.process, progressCount
\* and the status text as they are.
C1_SecondUploadRejected ==
    [][(Busy /\ Pressed)
         => UNCHANGED <<process, procState, progressCount, status>>]_vars

\* C2 (as claimed): once the status is 'Complete', 'Upload Failed' or 'Port In
\* Use / Please Close', no later stdout or stderr event of that session changes
\* the status text.
C2_TerminalIsFinal ==
    [][(status \in Terminal /\ OutputEvent) => status' = status]_vars

\* C3 (as claimed): after every stdout chunk, a chunk containing "complete"
\* leaves 'Complete', one containing "failed" leaves 'Upload Failed', one
\* containing "open" leaves 'Port In Use / Please Close'.
C3_EveryMarkerWins ==
    last.op = "stdout" =>
        /\ "complete" \in last.words => status = StatusComplete
        /\ "failed" \in last.words => status = StatusUploadFailed
        /\ "open" \in last.words => status = StatusPortInUse

\* C3 (amended): the marker words are tried in the order "complete", "failed",
\* "open" and the first one the chunk contains decides the status; a chunk that
\* contains a marker word leaves progressCount alone, and only a chunk with none
\* of them is counted as progress: its '#' are added to progressCount and
\* progressCount div 3 dots are appended to the status.
C3_MarkerPrecedence ==
    [][StdoutEvent =>
         LET w == last'.words
         IN /\ "complete" \in w => status' = StatusComplete
            /\ ("failed" \in w /\ "complete" \notin w)
                  => status' = StatusUploadFailed
            /\ ("open" \in w /\ "complete" \notin w /\ "failed" \notin w)
                  => status' = StatusPortInUse
            /\ w # {} => progressCount' = progressCount
            /\ w = {} =>
                 /\ progressCount' = progressCount + last'.hashes
                 /\ Len(status') = Len(status) + (progressCount' \div 3)
                 /\ SubSeq(status', 1, Len(status)) = status
                 /\ Dots(status') = Dots(status) + (progressCount' \div 3)]_vars

\* a chunk holding both "failed" and "complete" has left 'Complete'
C3_Witness ==
    /\ last.op = "stdout"
    /\ {"complete", "failed"} \subseteq last.words
    /\ status = StatusComplete

\* C4 (as claimed): in a session, up to the terminal marker, neither
\* progressCount nor the number of dots in the status decreases from one output
\* event to the next, and the chunk with "complete" leaves exactly 'Complete'.
C4_ProgressMonotone ==
    [][(session.plain /\ OutputEvent) =>
         IF last'.op = "stdout" /\ last'.words # {}
         THEN "complete" \in last'.words => status' = StatusComplete
         ELSE /\ progressCount' >= progressCount
              /\ Dots(status') >= Dots(status)]_vars

\* C5 (as claimed): after the uploader is started the status eventually leaves
\* 'Uploading ...', whatever the process does.
C5_EventuallyTerminal ==
    (Len(status) > 0 /\ Head(status) = "Uploading ")
        ~> ~(Len(status) > 0 /\ Head(status) = "Uploading ")

\* C6: a press of Upload that finds the selected device not among the ports
\* comports() lists sets the status to 'Port No Longer Available', creates no
\* QProcess and leaves progressCount and self.process unchanged.
C6_PortGone ==
    [][(Pressed /\ ~last'.listed) =>
         /\ status' = StatusPortGone
         /\ ~last'.raised
         /\ UNCHANGED <<process, procState, progressCount, openFiles>>]_vars

\* a device was selected, and the press found it gone
C6_Witness ==
    /\ last.op = "upload"
    /\ ~last.listed
    /\ portIndex >= 0
    /\ status = StatusPortGone

\* C7: with the port listed, a press of Upload whose open() fails returns
\* normally with status 'File Not Found', no QProcess created and progressCount
\* unchanged; when open() succeeds the file is closed again and the uploader is
\* started.
C7_FileCheck ==
    [][(Pressed /\ last'.listed) =>
         /\ ~last'.raised
         /\ openFiles' = openFiles
         /\ IF last'.exc # "ok"
            THEN /\ status' = StatusFileNotFound
                 /\ UNCHANGED <<process, procState, progressCount>>
            ELSE /\ process' = process + 1
                 /\ procState' = "Starting"]_vars

\* open() raised something other than IOError, and the handler still returned
\* with 'File Not Found'
C7_Witness ==
    /\ last.op = "upload"
    /\ last.listed
    /\ last.exc = "ValueError"
    /\ ~last.raised
    /\ status = StatusFileNotFound

\* C8: an accepted press of Upload leaves progressCount = 0 and the status
\* exactly 'Uploading '; from then on the count and the text are those that the
\* events of this session alone produce from that fresh start.
C8_FreshSession ==
    /\ (last.op = "upload" /\ last.outcome = "Started") =>
          (progressCount = 0 /\ status = <<"Uploading ">>)
    /\ process # 0 =>
          (progressCount = session.freshCount /\ status = session.freshStatus)

\* the second session of a run shows progress of its own
C8_Witness ==
    /\ process = 2
    /\ last.op = "stdout"
    /\ Dots(status) > 0

\* C9 (as claimed): after marker-free stdout chunks only, the status is
\* 'Uploading ' followed by floor(N / 3) dots, N the '#' received so far in the
\* session.
C9_DotsAreFloorThird ==
    (process # 0 /\ session.plain) =>
        status = AppendDots(<<"Uploading ">>, session.hashes \div 3)

\* C10: closing saves the selected port, the file path and the selected baud
\* rate and accepts the event; the next startup restores the saved path, and
\* the saved port (baud rate) selection exactly when the port (baud) list still
\* holds that value, leaving the selection as filling the list set it otherwise.
C10_SettingsRoundTrip ==
    [][/\ last'.op = "close" =>
            /\ last'.outcome = "accepted"
            /\ settings'.file = StrVar(fileText)
            /\ settings'.port =
                 (IF portIndex = -1 THEN NoneVar ELSE portItems[portIndex + 1])
            /\ settings'.baud = IntVar(BaudRates[baudIndex + 1])
       /\ last'.op = "startup" =>
            LET here == {i \in DOMAIN portItems' : portItems'[i] = settings.port}
            IN /\ settings.file.t = "str" => fileText' = settings.file.v
               /\ settings.file.t = "none" => fileText' = ""
               /\ here # {} => portItems'[portIndex' + 1] = settings.port
               /\ here = {} =>
                    portIndex' = (IF Len(portItems') = 0 THEN -1 ELSE 0)
               /\ settings.baud.t = "int" =>
                    BaudRates[baudIndex' + 1] = settings.baud.v
               /\ settings.baud.t = "none" => baudIndex' = 0]_vars

\* a startup on the INI store has restored a file path and port and baud
\* selections that are not the ones a fresh widget shows
C10_Witness ==
    /\ last.op = "startup"
    /\ last.outcome = "ini"
    /\ fileText = "fw.bin"
    /\ portIndex = 1
    /\ baudIndex = 2
====
